---- MODULE Spec2Model ----
(***************************************************************************)
(* Deposit ledger and batch disbursement processor of src/index.js.        *)
(*                                                                         *)
(* The table `deposits`, the /deposit command handler with createDeposit,  *)
(* and processBatch as started by setInterval.  processBatch is an async   *)
(* function: it is split at its four awaits (SELECT, sendTransaction,      *)
(* confirmTransaction, UPDATE); what runs between two awaits is one step.  *)
(* The /deposit handler awaits createDeposit, which awaits its INSERT: the *)
(* database executing the INSERT and the handler resuming with the answer  *)
(* are two steps, and other callbacks run in between.  What the handler    *)
(* does before the INSERT is executed reads and writes nothing shared, so  *)
(* it is part of the step in which the INSERT is executed (or rejected     *)
(* unexecuted).                                                            *)
(* The database and the chain RPC are outside the program: each call to    *)
(* them resolves or rejects, which the actions choose with \E.             *)
(*                                                                         *)
(* Invocations of processBatch have no identity of their own, so the ones  *)
(* in flight are a bag of records.  The history variables (and the row ids *)
(* kept with a transaction, "batch") are written by no statement of the    *)
(* program and read by none; a specification records the ones named in     *)
(* `recorded` and leaves the others at their first value.                  *)
(* Under gateway = "any" a call to the chain RPC may resolve or reject     *)
(* whatever the transaction; under "ledger" sendTransaction rejects a      *)
(* transaction that holds a transfer of negative lamports, as the chain    *)
(* does.  Every behaviour under "ledger" is one under "any".               *)
(***************************************************************************)
EXTENDS Integers, Sequences, FiniteSets, Bags, TLC

VARIABLES
    deposits,   \* the table: deposit id -> row, DOMAIN = ids inserted so far
    handlers,   \* /deposit handlers suspended at await createDeposit, their INSERT
                \* executed: set of [chatId, recipient, depositId]
    runs,       \* processBatch invocations in flight: bag of [pc, tx, txHash, conf]
    now,        \* the database clock (CURRENT_TIMESTAMP / NOW()): rows written so far
    reply,      \* history: the /deposit message handled in the step just taken and its answer
    confirmed,  \* history: ids paid by a transaction confirmed without error
    attempts,   \* history: id -> failed batch attempts this id was part of
    ended,      \* history: the invocation that returned in the step just taken, if one did
    recorded,   \* which history variables this specification records
    gateway     \* what this specification takes the chain RPC to do ("any", "ledger")

vars == <<deposits, handlers, runs, now, reply, confirmed, attempts, ended, recorded, gateway>>

----------------------------------------------------------------------------
(* Bounds of the exploration *)

MaxDeposits == 2     \* rows inserted
MaxRuns == 2         \* processBatch invocations in flight at once
RetryCeiling == 2    \* the retry ceiling N; the failed-attempt count stops there

(* Program constants *)

FlatFee == 5000          \* index.js:72
NULL == -1               \* SQL NULL of amount / processed_at (never a stored value)

Ids == 1 .. MaxDeposits              \* stand for the uuids uuidv4() returns
ChatIds == {42}
Addresses == {"R1", "bad"}           \* second word of the /deposit message
Amounts == {3000, 1000000}           \* values the amount column is given

----------------------------------------------------------------------------
(* Helpers *)

Min(a, b) == IF a < b THEN a ELSE b

\* The sequences that list every element of S exactly once.
Perms(S) ==
    {s \in [1 .. Cardinality(S) -> S] : \A x \in S : \E i \in DOMAIN s : s[i] = x}

\* No validation of the address.
AnyAddress(x) == TRUE

\* new PublicKey(x): throws unless x is a well-formed address.
ValidAddress(x) == x = "R1"

\* JS ToNumber on the amount column's value: null - 5000 is 0 - 5000.
ToNumber(v) == IF v = NULL THEN 0 ELSE v

\* The memo without the deposit id.
MemoNoId(chatId, depositId) == <<"PK", chatId>>

\* `PK-${chatId}-${depositId}`
Memo(chatId, depositId) == <<"PK", chatId, depositId>>

\* A history variable's next value: new if the specification records it.
Rec(name, new, old) == IF name \in recorded THEN new ELSE old

NoRun == [outcome |-> "none", batch |-> {}]

NoReply == [text |-> "none", chatId |-> 0, recipient |-> "", memo |-> << >>, depositId |-> 0]

----------------------------------------------------------------------------
InitState ==
    /\ deposits = << >>
    /\ handlers = {}
    /\ runs = EmptyBag
    /\ now = 0
    /\ reply = NoReply
    /\ confirmed = {}
    /\ attempts = [i \in Ids |-> 0]
    /\ ended = NoRun

Init == InitState /\ recorded = {"ended"} /\ gateway = "any"

----------------------------------------------------------------------------
(* The /deposit command and createDeposit *)

\* uuidv4(): an id no row has yet.  The ids are named in the order of issue.
uuidv4 == CHOOSE i \in Ids \ DOMAIN deposits : \A j \in Ids \ DOMAIN deposits : i <= j

\* createDeposit: the INSERT names id, chat_id, recipient and memo; amount and
\* processed_at are left NULL, status and created_at take their defaults.
NewRow(chatId, recipient, depositId) ==
    [id |-> depositId, chat_id |-> chatId, amount |-> NULL,
     memo |-> Memo(chatId, depositId), recipient |-> recipient,
     status |-> "pending", created_at |-> now, processed_at |-> NULL]

createDeposit(chatId, recipient, depositId) ==
    deposits' = [i \in DOMAIN deposits \cup {depositId} |->
                    IF i = depositId THEN NewRow(chatId, recipient, depositId)
                    ELSE deposits[i]]

\* bot.command('deposit'): validate the address, insert, reply.  A throw of
\* new PublicKey or of the INSERT lands in the same catch.
Invalid(chatId, recipient) ==
    [text |-> "invalid", chatId |-> chatId, recipient |-> recipient,
     memo |-> << >>, depositId |-> 0]

Instructions(chatId, recipient, depositId) ==
    [text |-> "instructions", chatId |-> chatId, recipient |-> recipient,
     memo |-> Memo(chatId, depositId), depositId |-> depositId]

\* A /deposit message is handled up to its await.  new PublicKey throws: the
\* catch answers at once.  Otherwise createDeposit draws the id, derives the
\* memo and issues the INSERT: the database executes it and the handler stays
\* suspended, or the query rejects unexecuted and the catch answers.
depositCommand ==
    \E chatId \in ChatIds, recipient \in Addresses :
        /\ IF ~ValidAddress(recipient)
           THEN /\ reply' = Rec("reply", Invalid(chatId, recipient), reply)
                /\ UNCHANGED <<deposits, handlers, now>>
           ELSE \E inserted \in BOOLEAN :
                    /\ DOMAIN deposits # Ids
                    /\ IF inserted
                       THEN /\ createDeposit(chatId, recipient, uuidv4)
                            /\ handlers' = handlers \cup
                                    {[chatId |-> chatId, recipient |-> recipient,
                                      depositId |-> uuidv4]}
                            /\ reply' = Rec("reply", NoReply, reply)
                            /\ now' = now + 1
                       ELSE /\ reply' = Rec("reply", Invalid(chatId, recipient), reply)
                            /\ UNCHANGED <<deposits, handlers, now>>
        /\ ended' = NoRun
        /\ UNCHANGED <<runs, confirmed, attempts, recorded, gateway>>

\* The query of a suspended handler settles and the handler resumes: it
\* resolves and the handler sends the instructions, or it rejects (the
\* answer was lost after the INSERT was executed) and the catch sends the
\* invalid address message.
depositCommandResume(h) ==
    /\ \E ok \in BOOLEAN :
        reply' = Rec("reply",
                     IF ok THEN Instructions(h.chatId, h.recipient, h.depositId)
                     ELSE Invalid(h.chatId, h.recipient), reply)
    /\ handlers' = handlers \ {h}
    /\ ended' = NoRun
    /\ UNCHANGED <<deposits, now, runs, confirmed, attempts, recorded, gateway>>

\* The amount column: no statement of the program writes it.  It is written
\* from outside the program, once per row (the spec leaves open by what).
creditAmount ==
    \E id \in DOMAIN deposits, a \in Amounts :
        /\ deposits[id].amount = NULL
        /\ deposits' = [deposits EXCEPT ![id].amount = a]
        /\ ended' = NoRun
        /\ UNCHANGED <<handlers, runs, now, confirmed, attempts, recorded, gateway>>
        /\ reply' = Rec("reply", NoReply, reply)

----------------------------------------------------------------------------
(* processBatch *)

Pending == {id \in DOMAIN deposits : deposits[id].status = "pending"}

\* An instruction holds toPubkey and lamports; the id of the row it pays is
\* history, NoId where the specification does not record the batches.
NoId == 0

TxIds(tx) == {tx[i].id : i \in DOMAIN tx} \ {NoId}

\* What the SELECT returns when the database executes it: the rows pending at
\* that moment, in the order the database picks (the query has no ORDER BY).
\* Of a row the loop reads recipient and amount.
Snapshot(order) ==
    [i \in DOMAIN order |->
        [id |-> Rec("batch", order[i], NoId),
         recipient |-> deposits[order[i]].recipient,
         amount |-> deposits[order[i]].amount]]

\* The for loop: one transfer per selected row, lamports = amount - 5000.
Build(rows) ==
    [i \in 1 .. Len(rows) |->
        [id |-> rows[i].id, toPubkey |-> rows[i].recipient,
         lamports |-> ToNumber(rows[i].amount) - FlatFee]]

\* new PublicKey(deposit.recipient) throws inside the loop.
BuildThrows(rows) == \E i \in DOMAIN rows : ~ValidAddress(rows[i].recipient)

\* The if with >= for >.
HasInstructionsOrNone(tx) == Len(tx) >= 0

\* if (tx.instructions.length > 0)
HasInstructions(tx) == Len(tx) > 0

\* The UPDATE without its WHERE.
UpdateAll(table, t) ==
    [i \in DOMAIN table |->
        [table[i] EXCEPT !.status = "processed", !.processed_at = t]]

\* The UPDATE also stamping created_at.
UpdatePendingRestamp(table, t) ==
    [i \in DOMAIN table |->
        IF table[i].status = "pending"
        THEN [table[i] EXCEPT !.status = "processed", !.processed_at = t,
                              !.created_at = t]
        ELSE table[i]]

\* UPDATE deposits SET status = 'processed', processed_at = NOW()
\*   WHERE status = 'pending'
UpdatePending(table, t) ==
    [i \in DOMAIN table |->
        IF table[i].status = "pending"
        THEN [table[i] EXCEPT !.status = "processed", !.processed_at = t]
        ELSE table[i]]

Bump(counter, ids, cap) ==
    [i \in Ids |-> IF i \in ids THEN Min(counter[i] + 1, cap) ELSE counter[i]]

\* What a transaction hash stands for: the rows the transaction sent pays.
TxHash(tx) == TxIds(tx)

BatchIds(x) ==
    IF x.pc = "selected" THEN TxIds(x.rows)
    ELSE IF x.pc = "submit" THEN TxHash(x.tx)
    ELSE x.txHash

\* Lamports are unsigned on the chain: it executes no transfer of a negative
\* amount, and a transaction executes as a whole or not at all.
LedgerAccepts(tx) == \A i \in DOMAIN tx : tx[i].lamports >= 0

\* An invocation: where it is suspended, the rows its SELECT returned, its
\* tx and txHash, what confirmTransaction resolved with, and (history) the
\* rows its UPDATE changed.
NewRun == [pc |-> "select", rows |-> <<>>, tx |-> <<>>, txHash |-> {},
           conf |-> "none", swept |-> {}]

Goes(x, y) == runs' = (runs (-) SetToBag({x})) (+) SetToBag({y})

\* The invocation returns (normally or through its catch).
Ended(x, outcome) ==
    /\ runs' = runs (-) SetToBag({x})
    /\ ended' = Rec("ended", [outcome |-> outcome,
                                  batch |-> BatchIds(x)], ended)

\* setInterval(processBatch, 300000) fires: a new invocation starts and
\* issues its SELECT, whatever the earlier invocations are doing.
processBatchStart ==
    /\ BagCardinality(runs) < MaxRuns
    /\ runs' = runs (+) SetToBag({NewRun})
    /\ ended' = NoRun
    /\ reply' = Rec("reply", NoReply, reply)
    /\ UNCHANGED <<handlers, deposits, now, confirmed, attempts, recorded, gateway>>

\* The database executes the SELECT of invocation x, which stays suspended
\* at its await until the answer arrives.
processBatchSelect(x) ==
    /\ x.pc = "select"
    /\ \E order \in Perms(Pending) :
          Goes(x, [x EXCEPT !.pc = "selected", !.rows = Snapshot(order)])
    /\ ended' = NoRun
    /\ reply' = Rec("reply", NoReply, reply)
    /\ UNCHANGED <<handlers, deposits, now, confirmed, attempts, recorded, gateway>>

\* The SELECT's promise settles and the invocation resumes: with the rows the
\* database read, the loop builds tx and the if decides; a rejection (of a
\* SELECT executed or not) is caught.
processBatchRows(x) ==
    /\ x.pc \in {"select", "selected"}
    /\ \E ok \in BOOLEAN :
        /\ ok => x.pc = "selected"
        /\ IF ~ok
           THEN Ended(x, "selectFailed")
           ELSE LET tx == Build(x.rows)
                IN  IF BuildThrows(x.rows)
                    THEN Ended(x, "buildFailed")
                    ELSE IF HasInstructions(tx)
                    THEN /\ Goes(x, [x EXCEPT !.pc = "submit", !.tx = tx,
                                              !.rows = <<>>])
                         /\ ended' = NoRun
                    ELSE Ended(x, "noop")
    /\ reply' = Rec("reply", NoReply, reply)
    /\ UNCHANGED <<handlers, deposits, now, confirmed, attempts, recorded, gateway>>

\* await solanaConn.sendTransaction(tx, [bundlerKeypair]); from here on the
\* invocation holds txHash and no longer reads tx.
processBatchSend(x) ==
    /\ x.pc = "submit"
    /\ \E ok \in BOOLEAN :
        /\ ok => gateway = "any" \/ LedgerAccepts(x.tx)
        /\ IF ok
           THEN /\ Goes(x, [x EXCEPT !.pc = "confirm", !.txHash = TxHash(x.tx),
                                     !.tx = <<>>])
                /\ ended' = NoRun
                /\ UNCHANGED attempts
           ELSE /\ Ended(x, "submitFailed")
                /\ attempts' = Rec("attempts",
                                   Bump(attempts, BatchIds(x), RetryCeiling), attempts)
    /\ reply' = Rec("reply", NoReply, reply)
    /\ UNCHANGED <<handlers, deposits, now, confirmed, recorded, gateway>>

\* await solanaConn.confirmTransaction(txHash): resolves with err null
\* ("success"), resolves with err set ("err": the transaction failed; the
\* resolved value is not looked at), or rejects ("timeout").
processBatchConfirm(x) ==
    /\ x.pc = "confirm"
    /\ \E outcome \in {"success", "err", "timeout"} :
        /\ confirmed' = Rec("confirmed",
                            IF outcome = "success" THEN confirmed \cup BatchIds(x)
                            ELSE confirmed, confirmed)
        /\ attempts' = Rec("attempts",
                           IF outcome = "success" THEN attempts
                           ELSE Bump(attempts, BatchIds(x), RetryCeiling), attempts)
        /\ IF outcome = "timeout"
           THEN Ended(x, "confirmFailed")
           ELSE /\ Goes(x, [x EXCEPT !.pc = "update", !.conf = outcome])
                /\ ended' = NoRun
    /\ reply' = Rec("reply", NoReply, reply)
    /\ UNCHANGED <<handlers, deposits, now, recorded, gateway>>

\* The database executes the UPDATE of invocation x, which stays suspended
\* at its await until the answer arrives.
processBatchUpdate(x) ==
    /\ x.pc = "update"
    /\ deposits' = UpdatePending(deposits, now)
    /\ now' = IF Pending # {} THEN now + 1 ELSE now
    /\ Goes(x, [x EXCEPT !.pc = "updated", !.swept = Rec("batch", Pending, {})])
    /\ ended' = NoRun
    /\ reply' = Rec("reply", NoReply, reply)
    /\ UNCHANGED <<handlers, confirmed, attempts, recorded, gateway>>

\* The UPDATE's promise settles and the invocation resumes: the log line and
\* the return, or the catch after a rejection (of an UPDATE executed or not).
processBatchReturn(x) ==
    /\ x.pc \in {"update", "updated"}
    /\ \E ok \in BOOLEAN :
        /\ ok => x.pc = "updated"
        /\ Ended(x, IF ~ok THEN "updateFailed"
                    ELSE IF x.conf = "success" THEN "processed"
                    ELSE "processedAfterErr")
    /\ reply' = Rec("reply", NoReply, reply)
    /\ UNCHANGED <<handlers, deposits, now, confirmed, attempts, recorded, gateway>>

Next ==
    \/ depositCommand
    \/ \E h \in handlers : depositCommandResume(h)
    \/ creditAmount
    \/ processBatchStart
    \/ \E x \in BagToSet(runs) : processBatchSelect(x)
    \/ \E x \in BagToSet(runs) : processBatchRows(x)
    \/ \E x \in BagToSet(runs) : processBatchSend(x)
    \/ \E x \in BagToSet(runs) : processBatchConfirm(x)
    \/ \E x \in BagToSet(runs) : processBatchUpdate(x)
    \/ \E x \in BagToSet(runs) : processBatchReturn(x)

Spec == Init /\ [][Next]_vars

\* The same program against the ledger, with the batches, the confirmed
\* payments and the failed attempts recorded.
InitLedger ==
    /\ InitState
    /\ recorded = {"ended", "batch", "confirmed", "attempts"}
    /\ gateway = "ledger"
   

SpecLedger == InitLedger /\ [][Next]_vars

\* What the code schedules itself: setInterval(processBatch, 300000) goes on
\* firing. Nothing is assumed of the calls an invocation awaits: the pool and
\* the connection are built without a timeout and the code sets none, so a
\* query, sendTransaction or confirmTransaction may settle late or never.
Fairness == WF_vars(processBatchStart)

InitLive == InitState /\ recorded = {"ended"} /\ gateway = "ledger"

SpecLive == InitLive /\ [][Next]_vars /\ Fairness

\* The same program against the ledger, with the /deposit handler's messages
\* recorded.
InitReply == InitState /\ recorded = {"reply"} /\ gateway = "ledger"

SpecReply == InitReply /\ [][Next]_vars

----------------------------------------------------------------------------
(* Steps, as seen from outside *)

Active == BagToSet(runs)

\* The database executed a SELECT in this step, and invocation y holds its
\* answer.
SelectStep(y) ==
    /\ y.pc = "selected"
    /\ runs' = (runs (-) SetToBag({NewRun})) (+) SetToBag({y})

\* Invocation x resumed with the rows of its SELECT in this step.
RowsStep(x) ==
    /\ x.pc = "selected"
    /\ CopiesIn(x, runs') < CopiesIn(x, runs)
    /\ ended'.outcome # "selectFailed"

\* The database executed the UPDATE of invocation x in this step.
UpdateStep(x) ==
    /\ x.pc = "update"
    /\ \E y \in BagToSet(runs') :
          y.pc = "updated" /\ runs' = (runs (-) SetToBag({x})) (+) SetToBag({y})

\* Invocation x returned (normally or through its catch) in this step.
ReturnStep(x) == runs' = runs (-) SetToBag({x})

\* Invocation x's confirmTransaction resolved with err null in this step.
ConfirmedStep(x) ==
    /\ x.pc = "confirm"
    /\ runs' = (runs (-) SetToBag({x})) (+) SetToBag({[x EXCEPT !.pc = "update", !.conf = "success"]})

Payout(row) == ToNumber(row.amount) - FlatFee

Range(f) == {f[i] : i \in DOMAIN f}

Settled(table, id) == table[id].status = "processed" /\ table[id].processed_at # NULL

StillPending(table, id) == table[id].status = "pending" /\ table[id].processed_at = NULL

----------------------------------------------------------------------------
(* Claims *)

\* C1: at most one batch settlement run is active at any time; a timer tick
\* that finds a run still selecting, submitting, confirming or reconciling
\* starts no second run.
C1_SingleActiveRun == BagCardinality(runs) <= 1

\* C2: a run's reconciliation changes neither status nor processedAt of a
\* deposit that is not in its batch (one created after its selection
\* snapshot); such a deposit is still pending when the run ends.
C2_LateDepositUntouched ==
    [][\A x \in Active :
        UpdateStep(x) =>
            \A id \in DOMAIN deposits \ BatchIds(x) : deposits'[id] = deposits[id]]_vars

\* C3: no deposit intent is paid by more than one transaction that the chain
\* confirms (exactly-once settlement over any sequence of runs).
C3_ExactlyOnce ==
    [][\A x \in Active : ConfirmedStep(x) => BatchIds(x) \cap confirmed = {}]_vars

\* C4: an intent is settled (processed) only if its transfer was part of a
\* transaction that the gateway confirmed successful.
C4_SettledOnlyIfConfirmed ==
    \A id \in DOMAIN deposits : deposits[id].status = "processed" => id \in confirmed

\* C5: every transfer of a transaction passed to submit has payout
\* amount - flatFee >= 0.
C5_NoNegativePayoutSubmitted ==
    \A x \in Active :
        x.pc = "submit" => \A i \in DOMAIN x.tx : x.tx[i].lamports >= 0

\* C6: a snapshot holding an intent with amount < flatFee next to intents
\* with payout >= 0 does not abort the batch: the intent in error is left
\* out, the run submits the transaction of the valid intents, each with
\* payout amount - flatFee, and these are settled on confirmed success.
C6_InvalidIsolated ==
    [][\A x \in Active :
        (RowsStep(x) /\ (\E r \in Range(x.rows) : Payout(r) < 0)
                     /\ (\E r \in Range(x.rows) : Payout(r) >= 0))
        => \E y \in BagToSet(runs') :
            /\ y.pc = "submit"
            /\ runs' = (runs (-) SetToBag({x})) (+) SetToBag({y})
            /\ TxIds(y.tx) = {r.id : r \in {q \in Range(x.rows) : Payout(q) >= 0}}
            /\ \A i \in DOMAIN y.tx : y.tx[i].lamports >= 0]_vars

\* C7: when confirm returned success and the run reconciled, every intent of
\* the batch is settled with processedAt set, and no other intent changed.
C7_BatchAndNoOther ==
    [][\A x \in Active :
        (UpdateStep(x) /\ x.conf = "success") =>
            /\ \A id \in BatchIds(x) : Settled(deposits', id)
            /\ \A id \in DOMAIN deposits \ BatchIds(x) : deposits'[id] = deposits[id]]_vars

\* C8: when submit fails, or confirm reports failure or times out, the run
\* ends with every intent of its batch pending and processedAt unset.
C8_FailureLeavesPending ==
    ended.outcome \in {"submitFailed", "confirmFailed", "processedAfterErr"} =>
        \A id \in ended.batch : StillPending(deposits, id)

\* C9: an intent that has been part of RetryCeiling failed batch attempts is
\* failed, and so is not selected again.
C9_RetryCeiling ==
    \A id \in DOMAIN deposits :
        attempts[id] >= RetryCeiling => deposits[id].status = "failed"

\* C10: a run whose selection is empty (its SELECT returned no row) returns
\* without a call to submit or confirm, and no row changes.
C10_EmptySelectionNoOp ==
    [][\A x \in Active :
        (x.pc = "selected" /\ x.rows = <<>> /\ CopiesIn(x, runs') < CopiesIn(x, runs))
        => /\ ReturnStep(x)
           /\ deposits' = deposits]_vars

C10_Witness == ended.outcome = "noop" /\ Pending = {} /\ DOMAIN deposits # {}

\* The spec's name of a status of the code.
SpecStatus(status) == IF status = "processed" THEN "settled" ELSE status

AllowedTransitions ==
    {<<"pending", "batched">>, <<"batched", "settled">>, <<"batched", "failed">>,
     <<"batched", "pending">>, <<"pending", "failed">>}

\* C11: the status of an intent changes only from pending to batched, from
\* batched to settled, to failed or back to pending, and from pending to
\* failed; a settled intent never has another status afterwards.
C11_MonotonicTransitions ==
    [][\A id \in DOMAIN deposits :
        deposits'[id].status # deposits[id].status =>
            <<SpecStatus(deposits[id].status), SpecStatus(deposits'[id].status)>>
                \in AllowedTransitions]_vars

\* C12: reconciliation applied again (by a later or an overlapping run) to
\* intents already reconciled changes no status and overwrites no
\* processedAt, and applying it once more to its own result changes nothing.
C12_ReconcileIdempotent ==
    [][\A x \in Active :
        UpdateStep(x) =>
            /\ \A id \in DOMAIN deposits :
                  deposits[id].processed_at # NULL => deposits'[id] = deposits[id]
            /\ UpdatePending(UpdatePending(deposits, now), now + 1)
                  = UpdatePending(deposits, now)]_vars

C12_Witness ==
    /\ ended.outcome \in {"processed", "processedAfterErr"}
    /\ \E id \in DOMAIN deposits :
          deposits[id].processed_at # NULL /\ deposits[id].processed_at + 1 < now

SystemErrors == {"selectFailed", "submitFailed", "confirmFailed", "updateFailed"}

\* C13: a run that ends in a storage or gateway error has changed no record,
\* is no longer in flight, and the next timer tick starts a run.
C13_ErrorAbortsOnlyRun ==
    [][/\ \A x \in Active :
            (ReturnStep(x) /\ ended'.outcome \in SystemErrors) =>
                /\ x.swept = {}
                /\ deposits' = deposits
                /\ BagCardinality(runs') = BagCardinality(runs) - 1
       /\ ended.outcome \in SystemErrors => ENABLED processBatchStart]_vars

Malformed == {"bad"}

\* C14: a /deposit with a malformed address is answered with the invalid
\* address message and persists nothing; a record is persisted only for a
\* well-formed address, one per handler, under a fresh id, with memo
\* PK-<chat>-<id> and status pending, changing no other record; and the
\* instructions sent carry the memo and id of the record of that handler.
C14_CreateDeposit ==
    [][/\ (reply'.text # "none" /\ reply'.recipient \in Malformed) =>
            reply'.text = "invalid" /\ deposits' = deposits /\ handlers' = handlers
       /\ DOMAIN deposits' # DOMAIN deposits =>
            \E id \in DOMAIN deposits' \ DOMAIN deposits, h \in handlers' \ handlers :
                /\ DOMAIN deposits' = DOMAIN deposits \cup {id}
                /\ handlers' = handlers \cup {h}
                /\ \A j \in DOMAIN deposits : deposits'[j] = deposits[j]
                /\ h.depositId = id /\ h.recipient \notin Malformed
                /\ deposits'[id].id = id
                /\ deposits'[id].chat_id = h.chatId
                /\ deposits'[id].recipient = h.recipient
                /\ deposits'[id].memo = <<"PK", h.chatId, id>>
                /\ deposits'[id].status = "pending"
       /\ reply'.text = "instructions" =>
            \E h \in handlers :
                /\ handlers' = handlers \ {h}
                /\ deposits' = deposits
                /\ h.depositId \in DOMAIN deposits
                /\ reply'.chatId = h.chatId /\ reply'.recipient = h.recipient
                /\ reply'.depositId = h.depositId
                /\ reply'.memo = deposits[h.depositId].memo]_vars

\* The instructions are sent for a record a batch run has processed since
\* its INSERT.
C14_Witness ==
    /\ reply.text = "instructions"
    /\ reply.depositId \in DOMAIN deposits
    /\ deposits[reply.depositId].memo = reply.memo
    /\ deposits[reply.depositId].status = "processed"

\* Chat ids beyond the one that messages the bot in the behaviours explored.
AnyChatIds == ChatIds \cup {-7, 43}

\* C15: no two distinct deposit intents have the same memo, and the memos of
\* two distinct ids differ whatever the owners, the same owner included.
C15_MemoUnique ==
    /\ \A i, j \in DOMAIN deposits : i # j => deposits[i].memo # deposits[j].memo
    /\ \A c1, c2 \in AnyChatIds, i, j \in Ids : i # j => Memo(c1, i) # Memo(c2, j)

C15_Witness ==
    \E i, j \in DOMAIN deposits :
        i # j /\ deposits[i].chat_id = deposits[j].chat_id
              /\ deposits[i].memo # deposits[j].memo

\* C16: an intent whose transfer is in flight at the gateway (its
\* transaction sent, not yet reconciled) is not pending: it was moved to
\* batched before the submit.
C16_BatchedBeforeSubmit ==
    \A x \in Active :
        x.pc = "confirm" => \A id \in BatchIds(x) : deposits[id].status # "pending"

\* C18: the selection of a run is every record pending when the snapshot is
\* taken and no other, by createdAt ascending, and the transfers of the
\* transaction follow that order.
C18_SelectionOrdered ==
    [][/\ \A y \in BagToSet(runs') :
            SelectStep(y) =>
                /\ TxIds(y.rows) = Pending
                /\ Len(y.rows) = Cardinality(Pending)
                /\ \A i, j \in DOMAIN y.rows :
                      i < j => deposits[y.rows[i].id].created_at
                                  <= deposits[y.rows[j].id].created_at
       /\ \A x \in Active, y \in BagToSet(runs') :
            (RowsStep(x) /\ y.pc = "submit"
                /\ runs' = (runs (-) SetToBag({x})) (+) SetToBag({y})) =>
                /\ Len(y.tx) = Len(x.rows)
                /\ \A i \in DOMAIN y.tx : y.tx[i].id = x.rows[i].id]_vars

\* The invocations suspended at await confirmTransaction(txHash).
Confirming == {x \in Active : x.pc = "confirm"}

ConfirmingCount == BagCardinality([x \in Confirming |-> CopiesIn(x, runs)])

\* C17: every run that starts returns: the Confirming step does not wait
\* forever. Runs move one at a time, so were exactly one run confirming from
\* some point on, it would be one and the same run, waiting forever: again
\* and again the number of confirming runs is other than one.
C17_RunsReturn == []<>(ConfirmingCount # 1)

Immutable(row) == <<row.id, row.chat_id, row.recipient, row.memo>>

\* C19: id, owner, recipient and memo of a record never change; creating a
\* deposit changes no existing record; a batch run changes only status and
\* processedAt.
C19_ImmutableFields ==
    [][\A id \in DOMAIN deposits :
        /\ id \in DOMAIN deposits'
        /\ Immutable(deposits'[id]) = Immutable(deposits[id])
        /\ DOMAIN deposits' # DOMAIN deposits => deposits'[id] = deposits[id]
        /\ \A x \in Active :
              UpdateStep(x) =>
                deposits'[id] = [deposits[id] EXCEPT
                                    !.status = deposits'[id].status,
                                    !.processed_at = deposits'[id].processed_at]]_vars

C19_Witness ==
    /\ ended.outcome = "processed"
    /\ \E i, j \in DOMAIN deposits :
          /\ Settled(deposits, i) /\ Settled(deposits, j)
          /\ deposits[i].processed_at < deposits[j].created_at

====
